---- MODULE Spec2Model ----
(***************************************************************************)
(* DevDaze blog: the content loader (getAllBlogPosts, getBlogPost), the    *)
(* frontmatter parser (parseMarkdownFile) and the three routes of main     *)
(* that call the loader, from src/main.go.                                 *)
(*                                                                         *)
(* Text is a sequence of tokens.  "-", " " and "\n" are the single         *)
(* characters hyphen, space and newline.  "A" and "T" each stand for one   *)
(* whole frontmatter fragment:  slug: "a"  and  title: "t" .  A file name  *)
(* is a sequence of single characters.                                     *)
(***************************************************************************)
EXTENDS Integers, Sequences, FiniteSets, TLC

\* ------------------------------------------------------------------ bounds
MaxChunks == 5
MaxEntries == 2
NumCalls == 2

\* ------------------------------------------------------- package "strings"

\* strings.HasPrefix(s, prefix)
HasPrefix(s, prefix) ==
    /\ Len(s) >= Len(prefix)
    /\ SubSeq(s, 1, Len(prefix)) = prefix

\* strings.HasSuffix(s, suffix)
HasSuffix(s, suffix) ==
    /\ Len(s) >= Len(suffix)
    /\ SubSeq(s, Len(s) - Len(suffix) + 1, Len(s)) = suffix

\* strings.Index(s, sep), 1-based; 0 when sep does not occur in s
Index(s, sep) ==
    LET hits == {i \in 1..(Len(s) - Len(sep) + 1) :
                    SubSeq(s, i, i + Len(sep) - 1) = sep}
    IN  IF hits = {} THEN 0
        ELSE CHOOSE i \in hits : \A j \in hits : i <= j

\* strings.SplitN(s, sep, 2): at most two parts, cut at the first sep
SplitN2(s, sep) ==
    LET i == Index(s, sep)
    IN  IF i = 0 THEN <<s>>
        ELSE <<SubSeq(s, 1, i - 1), SubSeq(s, i + Len(sep), Len(s))>>

\* unicode.IsSpace on the tokens of the model
IsSpace(c) == c \in {" ", "\n"}

RECURSIVE TrimLeft(_)
TrimLeft(s) ==
    IF s # <<>> /\ IsSpace(Head(s)) THEN TrimLeft(Tail(s)) ELSE s

RECURSIVE TrimRight(_)
TrimRight(s) ==
    IF s # <<>> /\ IsSpace(s[Len(s)])
    THEN TrimRight(SubSeq(s, 1, Len(s) - 1))
    ELSE s

\* strings.TrimSpace(s)
TrimSpace(s) == TrimRight(TrimLeft(s))

\* ------------------------------------------------------ parseMarkdownFile

\* the literal "---" of lines 187 and 192
Delim == <<"-", "-", "-">>

\* a nil error
Nil == "nil"

\* a nil *BlogPost
NoPost == [nil |-> TRUE]

ErrNoFrontmatter == "no frontmatter found"
ErrInvalidFormat == "invalid frontmatter format"
ErrYaml          == "error parsing frontmatter"

KeyTokens == {"A", "T"}

\* the lines of a text: strings.Split(s, "\n")
RECURSIVE Lines(_)
Lines(s) ==
    LET i == Index(s, <<"\n">>)
    IN  IF i = 0 THEN <<s>>
        ELSE <<SubSeq(s, 1, i - 1)>> \o Lines(SubSeq(s, i + 1, Len(s)))

RECURSIVE TrimRightSpaces(_)
TrimRightSpaces(s) ==
    IF s # <<>> /\ s[Len(s)] = " "
    THEN TrimRightSpaces(SubSeq(s, 1, Len(s) - 1))
    ELSE s

\* One line of the metadata block, trailing spaces dropped:
\*   "blank"    nothing on it
\*   "key"      one fragment at column 0 (a recognised field)
\*   "unknown"  one or two hyphens glued to a fragment: the key is
\*              -slug or --slug, which BlogMetadata does not declare
\*   "bad"      anything else: a sequence entry, a bare scalar, an indented
\*              key, or text after a quoted value
LineKind(line) ==
    LET l == TrimRightSpaces(line)
    IN  IF \A k \in 1..Len(l) : l[k] = " " THEN "blank"
        ELSE IF Len(l) = 1 /\ l[1] \in KeyTokens THEN "key"
        ELSE IF /\ Len(l) \in 2..3
                /\ l[Len(l)] \in KeyTokens
                /\ \A k \in 1..(Len(l) - 1) : l[k] = "-"
             THEN "unknown"
        ELSE "bad"

\* the value a recognised fragment gives its field, "" when none sets it
\* (a later line of the same key overrides an earlier one)
FieldValue(lines, keys) ==
    LET set == {k \in 1..Len(lines) :
                   /\ LineKind(lines[k]) = "key"
                   /\ TrimRightSpaces(lines[k])[1] \in keys}
    IN  IF set = {} THEN ""
        ELSE LET last == CHOOSE k \in set : \A j \in set : j <= k
                 tok  == TrimRightSpaces(lines[last])[1]
             IN  IF tok = "A" THEN "a" ELSE "t"

\* yaml.Unmarshal([]byte(frontmatter), &metadata)
yamlUnmarshal(frontmatter) ==
    LET lines == Lines(frontmatter)
    IN  IF \E k \in 1..Len(lines) : LineKind(lines[k]) = "bad"
        THEN [err |-> ErrYaml, Title |-> "", Slug |-> ""]
        ELSE [err   |-> Nil,
              Title |-> FieldValue(lines, {"T"}),
              Slug  |-> FieldValue(lines, {"A"})]

\* blackfriday.Run: a pure function of the body, here the body set in a
\* paragraph (an empty body renders to nothing)
blackfridayRun(markdownContent) ==
    IF markdownContent = <<>> THEN <<>>
    ELSE <<"<p>">> \o markdownContent \o <<"</p>", "\n">>

HasFrontmatterTwo(contentStr) == HasPrefix(contentStr, <<"-", "-">>)

\* line 187: the frontmatter check
HasFrontmatter(contentStr) == HasPrefix(contentStr, Delim)

AfterOpeningWhole(contentStr) == contentStr

\* line 192: contentStr[3:]
AfterOpening(contentStr) == SubSeq(contentStr, Len(Delim) + 1, Len(contentStr))

\* a split that is not limited to two parts: the second part ends at the
\* next delimiter
FrontmatterPartsSplitAll(contentStr) ==
    LET two == SplitN2(AfterOpening(contentStr), Delim)
    IN  IF Len(two) = 2 THEN <<two[1], SplitN2(two[2], Delim)[1]>> ELSE two

\* line 192: strings.SplitN(contentStr[3:], "---", 2)
FrontmatterParts(contentStr) == SplitN2(AfterOpening(contentStr), Delim)

\* line 198: markdownContent
MarkdownContent(parts) == TrimSpace(parts[2])

parseMarkdownFile(content) ==
    IF ~HasFrontmatter(content)
    THEN [post |-> NoPost, err |-> ErrNoFrontmatter]
    ELSE LET parts == FrontmatterParts(content)
         IN  IF Len(parts) # 2
             THEN [post |-> NoPost, err |-> ErrInvalidFormat]
             ELSE LET frontmatter     == TrimSpace(parts[1])
                      markdownContent == MarkdownContent(parts)
                      metadata        == yamlUnmarshal(frontmatter)
                  IN  IF metadata.err # Nil
                      THEN [post |-> NoPost, err |-> ErrYaml]
                      ELSE [post |-> [Title       |-> metadata.Title,
                                      Date        |-> "zero",
                                      Author      |-> "",
                                      Description |-> "",
                                      Tags        |-> <<>>,
                                      Slug        |-> metadata.Slug,
                                      Content     |-> markdownContent,
                                      HTMLContent |-> blackfridayRun(markdownContent)],
                            err  |-> Nil]

\* ------------------------------------------------- inputs of the parser

Chunks == {Delim, <<"-">>, <<" ">>, <<"\n">>, <<"A">>}

RECURSIVE TextsUpTo(_)
TextsUpTo(n) ==
    IF n = 0 THEN {<<>>}
    ELSE LET prev == TextsUpTo(n - 1)
         IN  prev \cup {t \o c : t \in prev, c \in Chunks}

Texts == TextsUpTo(MaxChunks)

\* ------------------------------------------------- the content directory

\* files that may lie in ./content, in file-name order (os.ReadDir sorts)
Catalog ==
    << [name     |-> <<"a", ".", "m", "d">>,
        readable |-> TRUE,
        content  |-> Delim \o <<"\n", "A", "\n", "T", "\n">> \o Delim
                           \o <<"\n", "\n", "T", " ", "A", "\n">>],
       [name     |-> <<"b", ".", "m", "d">>,
        readable |-> TRUE,
        content  |-> <<"T", "\n">> \o Delim \o <<"\n", "A", "\n">> \o Delim],
       [name     |-> <<"c", ".", "m", "d">>,
        readable |-> TRUE,
        content  |-> Delim \o <<"\n", "A", "\n">> \o Delim
                           \o <<"\n", "T", "\n">> \o Delim \o <<"\n">>],
       [name     |-> <<"d", ".", "m", "d">>,
        readable |-> FALSE,
        content  |-> Delim \o <<"\n", "A", "\n">> \o Delim \o <<"\n", "T">>],
       [name     |-> <<"e", ".", "t", "x", "t">>,
        readable |-> TRUE,
        content  |-> Delim \o <<"\n", "A", "\n">> \o Delim \o <<"\n", "T">>],
       [name     |-> <<"f", ".", "m", "d">>,
        readable |-> TRUE,
        content  |-> Delim \o <<"\n", "T", "\n">> \o Delim \o <<"\n", "-", " ", "T">>] >>

\* the entries of Catalog whose index is in S, in order
Listing(S) ==
    [k \in 1..Cardinality(S) |->
        Catalog[CHOOSE x \in S : Cardinality({y \in S : y < x}) = k - 1]]

Listings ==
    {Listing(S) : S \in {T \in SUBSET (1..Len(Catalog)) : Cardinality(T) <= MaxEntries}}

\* parseMarkdownFile(content) of lines 130 and 170, tabulated over the
\* contents the files of the directory can have
ParsedFile ==
    [c \in {Catalog[k].content : k \in 1..Len(Catalog)} |-> parseMarkdownFile(c)]

Calls == 1..NumCalls

\* what a caller may ask for: the two listing routes, the post route with a
\* slug, and a direct call of getBlogPost("") (the router passes no empty slug)
Requests ==
    {[route |-> "/", slug |-> ""], [route |-> "/blog", slug |-> ""],
     [route |-> "/blog/:slug", slug |-> "a"],
     [route |-> "direct", slug |-> ""]}

ErrNotFound == "blog post with slug not found"
ErrNotExist == "open ./content: no such file or directory"
ErrListing  == "open ./content: permission denied"

VARIABLES
    input,    \* parser: the bytes handed to parseMarkdownFile
    parsed,   \* parser: what parseMarkdownFile returned
    dir,      \* "absent", "unlistable" (exists, os.ReadDir fails) or "present"
    entries,  \* the directory's entries, in os.ReadDir order
    pc,       \* per call: where the call is
    req,      \* per call: the route and slug
    files,    \* per call: the local  files  of os.ReadDir
    idx,      \* per call: position of the range loop (entries examined so far)
    posts,    \* per call: the local  posts  list of getAllBlogPosts
    ret,      \* per call: what the loader returned
    resp      \* per call: the handler's response

pvars == <<input, parsed>>
lvars == <<dir, entries, pc, req, files, idx, posts, ret, resp>>
vars  == <<input, parsed, dir, entries, pc, req, files, idx, posts, ret, resp>>

NotParsed == [post |-> NoPost, err |-> "pending"]
NoReq     == [route |-> "none", slug |-> ""]
NoRet     == [post |-> NoPost, posts |-> <<>>, err |-> "pending"]
NoResp    == [status |-> 0, body |-> ""]

LoaderIdle ==
    /\ pc    = [p \in Calls |-> "idle"]
    /\ req   = [p \in Calls |-> NoReq]
    /\ files = [p \in Calls |-> <<>>]
    /\ idx   = [p \in Calls |-> 0]
    /\ posts = [p \in Calls |-> <<>>]
    /\ ret   = [p \in Calls |-> NoRet]
    /\ resp  = [p \in Calls |-> NoResp]

\* ------------------------------------------------------------ the parser

InitParse ==
    /\ input \in Texts
    /\ parsed = NotParsed
    /\ dir = "absent"
    /\ entries = <<>>
    /\ LoaderIdle

\* one call of parseMarkdownFile on the file's bytes
Parse ==
    /\ parsed = NotParsed
    /\ parsed' = parseMarkdownFile(input)
    /\ UNCHANGED <<input, lvars>>

NextParse == Parse

SpecParse == InitParse /\ [][NextParse]_vars

\* ------------------------------------------------------------ the loader

Init ==
    /\ input = <<>>
    /\ parsed = NotParsed
    /\ \/ /\ dir \in {"absent", "unlistable"}
          /\ entries = <<>>
       \/ /\ dir = "present"
          /\ entries \in Listings
    /\ LoaderIdle

IsListRoute(r) == r \in {"/", "/blog"}

StatNotExistNever(d) == FALSE

\* os.IsNotExist(err) of os.Stat(contentDir), line 149
StatNotExist(d) == d = "absent"

ReadDirFailsOnlyUnlistable(d) == d = "unlistable"

\* err != nil of os.ReadDir(contentDir), lines 114-115 and 153-154
ReadDirFails(d) == d # "present"

ReadDirErr(d) == IF d = "absent" THEN ErrNotExist ELSE ErrListing

IsMarkdownAnyExtension(name) == \E k \in 1..Len(name) : name[k] = "."

\* strings.HasSuffix(file.Name(), ".md"), lines 120 and 159
IsMarkdown(name) == HasSuffix(name, <<".", "m", "d">>)

ReadFileFailsNever(file) == FALSE

\* err != nil of os.ReadFile(filePath), lines 125-126 and 164-165
ReadFileFails(file) == ~file.readable

SlugMatchesTitle(post, slug) == post.Title = slug

\* post.Slug == slug, line 135
SlugMatches(post, slug) == post.Slug = slug

PostsOfShared(p) == 1

\* the call's own  posts  (var posts []*BlogPost, line 146)
PostsOf(p) == p

\* a route handler of main starts and calls the loader (lines 68, 86, 97)
Request(p, r) ==
    /\ pc[p] = "idle"
    /\ req' = [req EXCEPT ![p] = r]
    /\ pc' = [pc EXCEPT ![p] = IF IsListRoute(r.route) THEN "stat" ELSE "readdir"]
    /\ UNCHANGED <<input, parsed, dir, entries, files, idx, posts, ret, resp>>

\* getAllBlogPosts, lines 145-151
Stat(p) ==
    /\ pc[p] = "stat"
    /\ posts' = [posts EXCEPT ![PostsOf(p)] = <<>>]
    /\ IF StatNotExist(dir)
       THEN /\ ret' = [ret EXCEPT ![p] = [post |-> NoPost, posts |-> posts'[PostsOf(p)], err |-> Nil]]
            /\ pc' = [pc EXCEPT ![p] = "returned"]
       ELSE /\ pc' = [pc EXCEPT ![p] = "readdir"]
            /\ UNCHANGED ret
    /\ UNCHANGED <<input, parsed, dir, entries, req, files, idx, resp>>

\* os.ReadDir and its error return: lines 114-117 and 153-156
ReadDir(p) ==
    /\ pc[p] = "readdir"
    /\ IF ReadDirFails(dir)
       THEN /\ ret' = [ret EXCEPT ![p] = [post |-> NoPost, posts |-> <<>>, err |-> ReadDirErr(dir)]]
            /\ pc' = [pc EXCEPT ![p] = "returned"]
            /\ UNCHANGED files
       ELSE /\ files' = [files EXCEPT ![p] = entries]
            /\ pc' = [pc EXCEPT ![p] = "loop"]
            /\ UNCHANGED ret
    /\ UNCHANGED <<input, parsed, dir, entries, req, idx, posts, resp>>

\* one iteration of the loop of getAllBlogPosts, lines 158-177
ListIter(p) ==
    /\ pc[p] = "loop"
    /\ IsListRoute(req[p].route)
    /\ idx[p] < Len(files[p])
    /\ LET file == files[p][idx[p] + 1]
           r    == ParsedFile[file.content]
       IN  posts' = IF /\ IsMarkdown(file.name)
                       /\ ~ReadFileFails(file)
                       /\ r.err = Nil
                    THEN [posts EXCEPT ![PostsOf(p)] = Append(posts[PostsOf(p)], r.post)]
                    ELSE posts
    /\ idx' = [idx EXCEPT ![p] = idx[p] + 1]
    /\ UNCHANGED <<input, parsed, dir, entries, pc, req, files, ret, resp>>

\* getAllBlogPosts, line 179
ListReturn(p) ==
    /\ pc[p] = "loop"
    /\ IsListRoute(req[p].route)
    /\ idx[p] = Len(files[p])
    /\ ret' = [ret EXCEPT ![p] = [post |-> NoPost, posts |-> posts[PostsOf(p)], err |-> Nil]]
    /\ pc' = [pc EXCEPT ![p] = "returned"]
    /\ UNCHANGED <<input, parsed, dir, entries, req, files, idx, posts, resp>>

\* one iteration of the loop of getBlogPost, lines 119-138
GetIter(p) ==
    /\ pc[p] = "loop"
    /\ ~IsListRoute(req[p].route)
    /\ idx[p] < Len(files[p])
    /\ LET file == files[p][idx[p] + 1]
           r    == ParsedFile[file.content]
       IN  IF /\ IsMarkdown(file.name)
              /\ ~ReadFileFails(file)
              /\ r.err = Nil
              /\ SlugMatches(r.post, req[p].slug)
           THEN /\ ret' = [ret EXCEPT ![p] = [post |-> r.post, posts |-> <<>>, err |-> Nil]]
                /\ pc' = [pc EXCEPT ![p] = "returned"]
           ELSE UNCHANGED <<ret, pc>>
    /\ idx' = [idx EXCEPT ![p] = idx[p] + 1]
    /\ UNCHANGED <<input, parsed, dir, entries, req, files, posts, resp>>

\* getBlogPost, line 140
GetNotFound(p) ==
    /\ pc[p] = "loop"
    /\ ~IsListRoute(req[p].route)
    /\ idx[p] = Len(files[p])
    /\ ret' = [ret EXCEPT ![p] = [post |-> NoPost, posts |-> <<>>, err |-> ErrNotFound]]
    /\ pc' = [pc EXCEPT ![p] = "returned"]
    /\ UNCHANGED <<input, parsed, dir, entries, req, files, idx, posts, resp>>

\* the handler of "/", lines 69-81
RespondIndex(p, renderOK) ==
    /\ pc[p] = "returned"
    /\ req[p].route = "/"
    /\ resp' = [resp EXCEPT ![p] =
                  IF ret[p].err # Nil
                  THEN [status |-> 500, body |-> "Error loading blog posts"]
                  ELSE IF ~renderOK
                  THEN [status |-> 500, body |-> "Template render error"]
                  ELSE [status |-> 200, body |-> "index"]]
    /\ pc' = [pc EXCEPT ![p] = "responded"]
    /\ UNCHANGED <<input, parsed, dir, entries, req, files, idx, posts, ret>>

\* the handler of "/blog/:slug", lines 87-93
RespondPost(p, renderOK) ==
    /\ pc[p] = "returned"
    /\ req[p].route = "/blog/:slug"
    /\ resp' = [resp EXCEPT ![p] =
                  IF ret[p].err # Nil
                  THEN [status |-> 404, body |-> "Blog post not found"]
                  ELSE IF ~renderOK
                  THEN [status |-> 500, body |-> "render error"]
                  ELSE [status |-> 200, body |-> "post"]]
    /\ pc' = [pc EXCEPT ![p] = "responded"]
    /\ UNCHANGED <<input, parsed, dir, entries, req, files, idx, posts, ret>>

\* the handler of "/blog", lines 98-104
RespondBlog(p, renderOK) ==
    /\ pc[p] = "returned"
    /\ req[p].route = "/blog"
    /\ resp' = [resp EXCEPT ![p] =
                  IF ret[p].err # Nil
                  THEN [status |-> 500, body |-> "Error loading blog posts"]
                  ELSE IF ~renderOK
                  THEN [status |-> 500, body |-> "render error"]
                  ELSE [status |-> 200, body |-> "blog"]]
    /\ pc' = [pc EXCEPT ![p] = "responded"]
    /\ UNCHANGED <<input, parsed, dir, entries, req, files, idx, posts, ret>>

Next ==
    \E p \in Calls :
        \/ \E r \in Requests : Request(p, r)
        \/ Stat(p)
        \/ ReadDir(p)
        \/ ListIter(p)
        \/ ListReturn(p)
        \/ GetIter(p)
        \/ GetNotFound(p)
        \/ \E renderOK \in BOOLEAN : RespondIndex(p, renderOK)
        \/ \E renderOK \in BOOLEAN : RespondPost(p, renderOK)
        \/ \E renderOK \in BOOLEAN : RespondBlog(p, renderOK)

Spec == Init /\ [][Next]_vars

\* ================================================================ claims

Returned(p) == pc[p] \in {"returned", "responded"}
IsList(p)   == req[p].route \in {"/", "/blog"}
IsGet(p)    == req[p].route \in {"/blog/:slug", "direct"}

Least(S)    == CHOOSE x \in S : \A y \in S : x <= y
Greatest(S) == CHOOSE x \in S : \A y \in S : y <= x

EndsInMd(name) ==
    /\ Len(name) >= 3
    /\ name[Len(name) - 2] = "."
    /\ name[Len(name) - 1] = "m"
    /\ name[Len(name)] = "d"

\* the entries that are .md, can be read and parse
Loads(file) ==
    /\ EndsInMd(file.name)
    /\ file.readable
    /\ ParsedFile[file.content].err = Nil

LoadedPosts ==
    LET ok == SelectSeq(entries, Loads)
    IN  [k \in 1..Len(ok) |-> ParsedFile[ok[k].content].post]

\* C1: getAllBlogPosts called while the content directory does not exist
\* returns an empty sequence of posts and no error.
C1_AbsentDirListsEmpty ==
    \A p \in Calls :
        (Returned(p) /\ IsList(p) /\ dir = "absent")
            => (ret[p].posts = <<>> /\ ret[p].err = Nil)

C1_Witness ==
    \E p \in Calls : Returned(p) /\ IsList(p) /\ dir = "absent"

\* C2: when the directory listing succeeds, getAllBlogPosts returns no error
\* and exactly the posts of the .md entries that read and parse, in
\* enumeration order; every other entry is absent from the result.
C2_ListingIsTheLoadablePosts ==
    \A p \in Calls :
        (Returned(p) /\ IsList(p) /\ dir = "present")
            => (ret[p].err = Nil /\ ret[p].posts = LoadedPosts)

\* one valid file plus one malformed .md file yields exactly one Post
C2_Witness ==
    \E p \in Calls :
        /\ Returned(p) /\ IsList(p) /\ dir = "present"
        /\ Len(entries) = 2
        /\ \E k \in 1..2 :
              /\ EndsInMd(entries[k].name)
              /\ entries[k].readable
              /\ ParsedFile[entries[k].content].err # Nil
        /\ Len(ret[p].posts) = 1

\* the positions of the entries that load with slug s
Matches(s) ==
    {k \in 1..Len(entries) :
        /\ Loads(entries[k])
        /\ ParsedFile[entries[k].content].post.Slug = s}

\* C3: when the directory listing succeeds, getBlogPost(slug) returns the
\* Post of the first .md entry that reads, parses and has the slug, having
\* examined no later entry; with no such entry it has examined every entry
\* and returns not-found and no Post.
C3_FirstMatchOrNotFound ==
    \A p \in Calls :
        (Returned(p) /\ IsGet(p) /\ dir = "present")
            => LET M == Matches(req[p].slug)
               IN  IF M # {}
                   THEN /\ ret[p].post = ParsedFile[entries[Least(M)].content].post
                        /\ ret[p].err = Nil
                        /\ idx[p] = Least(M)
                   ELSE /\ ret[p].post = NoPost
                        /\ ret[p].err = ErrNotFound
                        /\ idx[p] = Len(entries)

\* two entries carry the slug; the first is returned, the second never read
C3_Witness ==
    \E p \in Calls :
        /\ Returned(p) /\ IsGet(p) /\ dir = "present"
        /\ Cardinality(Matches(req[p].slug)) = 2
        /\ idx[p] = 1
        /\ ret[p].post # NoPost

\* C4 as claimed: for every filesystem state getBlogPost gives a Post or the
\* not-found condition, never a generic error.
C4_Original ==
    \A p \in Calls :
        (Returned(p) /\ IsGet(p))
            => \/ (ret[p].post # NoPost /\ ret[p].err = Nil)
               \/ (ret[p].post = NoPost /\ ret[p].err = ErrNotFound)

\* C4 amended: getBlogPost gives a Post with no error, or no Post with the
\* not-found condition (only when the directory was listed), or no Post with
\* the error of os.ReadDir (exactly when the directory is absent or cannot be
\* listed); the not-found condition differs from that error.
C4_PostNotFoundOrListingError ==
    \A p \in Calls :
        (Returned(p) /\ IsGet(p))
            => /\ \/ (ret[p].post # NoPost /\ ret[p].err = Nil)
                  \/ (ret[p].post = NoPost /\ ret[p].err = ErrNotFound)
                  \/ (ret[p].post = NoPost /\ ret[p].err \in {ErrNotExist, ErrListing})
               /\ (ret[p].err \in {ErrNotExist, ErrListing}) <=> (dir # "present")
               /\ ErrNotFound \notin {ErrNotExist, ErrListing}

C4_Witness ==
    \E p, q \in Calls :
        /\ Returned(p) /\ IsGet(p) /\ dir = "absent"
        /\ ret[p].err = ErrNotExist
        /\ Returned(q) /\ IsList(q) /\ ret[q].err = Nil

\* C5: a listing failure (the directory exists but cannot be listed) is
\* answered with status 500 on every route that loads posts, never with a
\* valid result or a 404.
C5_ListingFailureIs500 ==
    \A p \in Calls :
        (pc[p] = "responded" /\ dir = "unlistable") => resp[p].status = 500

\* a line consisting of three hyphens opens the text
StartsWithDelimiterLine(t) ==
    /\ Len(t) >= 3
    /\ t[1] = "-" /\ t[2] = "-" /\ t[3] = "-"
    /\ (Len(t) = 3 \/ t[4] = "\n")

StartsWithThreeHyphens(t) ==
    /\ Len(t) >= 3
    /\ t[1] = "-" /\ t[2] = "-" /\ t[3] = "-"

DelimiterAt(t, k) ==
    /\ k >= 1 /\ k + 2 <= Len(t)
    /\ t[k] = "-" /\ t[k + 1] = "-" /\ t[k + 2] = "-"

\* C6 as claimed: text that does not start with a line consisting of three
\* hyphens always fails with "no frontmatter found".
C6_Original ==
    (parsed # NotParsed /\ ~StartsWithDelimiterLine(input))
        => (parsed.post = NoPost /\ parsed.err = ErrNoFrontmatter)

\* C6 amended: text whose first three characters are not three hyphens
\* always fails with "no frontmatter found" and gives no Post.
C6_NoPrefixNoFrontmatter ==
    (parsed # NotParsed /\ ~StartsWithThreeHyphens(input))
        => (parsed.post = NoPost /\ parsed.err = ErrNoFrontmatter)

\* two hyphens open the text and a full delimiter comes only later
C6_Witness ==
    /\ parsed # NotParsed
    /\ Len(input) >= 6
    /\ input[1] = "-" /\ input[2] = "-" /\ input[3] # "-"
    /\ \E k \in 4..Len(input) : DelimiterAt(input, k)
    /\ parsed.err = ErrNoFrontmatter

\* C7: text with the opening delimiter and no further three hyphens after
\* it always fails with "invalid frontmatter format" and gives no Post.
C7_NoClosingInvalidFormat ==
    (/\ parsed # NotParsed
     /\ StartsWithThreeHyphens(input)
     /\ \A k \in 4..Len(input) : ~DelimiterAt(input, k))
        => (parsed.post = NoPost /\ parsed.err = ErrInvalidFormat)

\* metadata and two hyphens follow the opening delimiter, no closing one
C7_Witness ==
    /\ parsed # NotParsed
    /\ StartsWithThreeHyphens(input)
    /\ \A k \in 4..Len(input) : ~DelimiterAt(input, k)
    /\ \E k \in 4..Len(input) : input[k] = "A"
    /\ \E k \in 4..Len(input) : input[k] = "-"
    /\ parsed.err = ErrInvalidFormat

\* t without its leading and trailing whitespace
Stripped(t) ==
    LET ink == {k \in 1..Len(t) : t[k] \notin {" ", "\n"}}
    IN  IF ink = {} THEN <<>> ELSE SubSeq(t, Least(ink), Greatest(ink))

\* where the first closing delimiter starts
ClosingAt(t) == Least({k \in 4..Len(t) : DelimiterAt(t, k)})

\* C8: on success Content is the text from just after the first closing
\* delimiter to the end, without leading and trailing whitespace; later
\* delimiters stay in it.
C8_ContentIsTextAfterFirstClosing ==
    (parsed # NotParsed /\ parsed.err = Nil)
        => /\ \E k \in 4..Len(input) : DelimiterAt(input, k)
           /\ parsed.post.Content =
                 Stripped(SubSeq(input, ClosingAt(input) + 3, Len(input)))

\* a third delimiter lies inside the body, with text on both sides of it
C8_Witness ==
    /\ parsed # NotParsed /\ parsed.err = Nil
    /\ \E k \in 2..(Len(parsed.post.Content) - 3) :
          DelimiterAt(parsed.post.Content, k)
    /\ parsed.post.Content[1] = "A"

\* what the loader returns to request r when it runs alone on the directory
RECURSIVE ListAlone(_, _)
ListAlone(k, acc) ==
    IF k > Len(entries) THEN acc
    ELSE LET file == entries[k]
             r    == ParsedFile[file.content]
         IN  ListAlone(k + 1,
                 IF IsMarkdown(file.name) /\ ~ReadFileFails(file) /\ r.err = Nil
                 THEN Append(acc, r.post) ELSE acc)

RECURSIVE GetAlone(_, _)
GetAlone(k, slug) ==
    IF k > Len(entries) THEN [post |-> NoPost, posts |-> <<>>, err |-> ErrNotFound]
    ELSE LET file == entries[k]
             r    == ParsedFile[file.content]
         IN  IF /\ IsMarkdown(file.name) /\ ~ReadFileFails(file) /\ r.err = Nil
                /\ SlugMatches(r.post, slug)
             THEN [post |-> r.post, posts |-> <<>>, err |-> Nil]
             ELSE GetAlone(k + 1, slug)

RunAlone(r) ==
    IF IsListRoute(r.route)
    THEN IF StatNotExist(dir) THEN [post |-> NoPost, posts |-> <<>>, err |-> Nil]
         ELSE IF ReadDirFails(dir)
         THEN [post |-> NoPost, posts |-> <<>>, err |-> ReadDirErr(dir)]
         ELSE [post |-> NoPost, posts |-> ListAlone(1, <<>>), err |-> Nil]
    ELSE IF ReadDirFails(dir)
         THEN [post |-> NoPost, posts |-> <<>>, err |-> ReadDirErr(dir)]
         ELSE GetAlone(1, r.slug)

\* C9: on an unchanging filesystem, whatever the interleaving of the calls,
\* each call returns what it would return run alone.
C9_SameResultAsAlone ==
    \A p \in Calls :
        Returned(p) => ret[p] = RunAlone(req[p])

\* a listing has returned posts while another listing is inside its loop
C9_Witness ==
    \E p, q \in Calls :
        /\ p # q
        /\ Returned(p) /\ IsList(p) /\ Len(ret[p].posts) = 2
        /\ IsList(q) /\ pc[q] = "loop" /\ idx[q] = 1

\* C10: when the directory can be listed, getBlogPost(s) returns a Post iff
\* the sequence of getAllBlogPosts holds a post with slug s, and then it is
\* the first such element, field for field.
C10_GetAgreesWithList ==
    \A p, q \in Calls :
        (/\ Returned(p) /\ IsGet(p)
         /\ Returned(q) /\ IsList(q)
         /\ dir = "present")
            => LET L == ret[q].posts
                   M == {k \in 1..Len(L) : L[k].Slug = req[p].slug}
               IN  /\ (ret[p].post # NoPost) <=> (M # {})
                   /\ M # {} => ret[p].post = L[Least(M)]

\* getBlogPost("") finds the post without a slug, the second of the listing
C10_Witness ==
    \E p, q \in Calls :
        /\ Returned(p) /\ IsGet(p) /\ req[p].slug = ""
        /\ Returned(q) /\ IsList(q)
        /\ dir = "present"
        /\ Len(ret[q].posts) = 2
        /\ ret[q].posts[1].Slug = "a"
        /\ ret[p].post = ret[q].posts[2]

====
